---- MODULE Spec2Model ----
(***************************************************************************)
(* A model of the dependency resolver (artfadeev/resolver):                *)
(*   resolver/parser.py  Version, VersionRange, VersionSet, index loader   *)
(*   resolver/utils.py   Formula (SAT encoding), reduce_setup, satisfy     *)
(*                                                                         *)
(* A Version is its integer, a VersionRange the record [start, end], a     *)
(* VersionSet the sequence of its ranges, a VersionedPackage the record    *)
(* [name, version].  Python dicts are functions, Python sets are sets.     *)
(* An operator that can raise returns a record with a "raised" field.      *)
(***************************************************************************)
EXTENDS Integers, Sequences, FiniteSets, TLC

VARIABLES
    \* --- VersionSet algebra (parser.py, part 1)
    given,         \* the list as the caller wrote it, before the call
    ranges,        \* the list handed to VersionSet(...), sorted in place by it
    self,          \* the VersionSet the operations are called on
    out,           \* the VersionSet returned by union / intersection
    op,            \* the last VersionSet operation: none/init/union/intersection
    raised,        \* TRUE once an operation raised instead of returning
    \* --- load_package_index (parser.py, part 3)
    mode,          \* "intersection" or "union"
    line,          \* the line of the file the loop read last
    index,         \* dict: package name -> set of versions
    dependencies,  \* dict: VersionedPackage -> dict: name -> VersionSet
    declared,      \* history: how many lines read so far declare each pair
    loadState,     \* reading / returned / raised
    loadError,     \* the exception load_package_index raised, or "none"
    \* --- Formula, reduce_setup, satisfy (utils.py)
    call,          \* the function called last: none / from_dependencies /
                   \* solve / reduce_setup / satisfy /
                   \* is_versionset_satisfiable
    args,          \* its arguments
    formula,       \* the Formula built by from_dependencies
    model,         \* the true variables of the model the solver returned
    solveResult,   \* none / sat: (True, setup) / unsat: (False, None)
    setup,         \* the setup solve returned
    new_setup,     \* the map reduce_setup returned
    error,         \* the exception the call raised, or "none"
    printed,       \* the lines written to stdout
    solverCalls,   \* how many times the SAT solver was invoked
    answer         \* what any_satisfiable returned: none / True / False

vsVars == <<given, ranges, self, out, op, raised>>
loadVars == <<mode, line, index, dependencies, declared, loadState, loadError>>
solveVars == <<call, args, formula, model, solveResult, setup, new_setup,
               error, printed, solverCalls, answer>>
vars == <<vsVars, loadVars, solveVars>>

\* ------------------------------------------------------------------ bounds
\* Largest version number of the VersionSet algebra runs.
MaxVersion == 3
\* Longest list of ranges handed to the VersionSet constructor.
MaxRanges == 3
\* Longest dependency list of the one-entry index files.
MaxEntryRanges == 3
\* Longest index file (in lines) of the resolver runs.
MaxLines == 3

\* --------------------------------------------------- Version, VersionRange

Min(a, b) == IF a < b THEN a ELSE b
Max(a, b) == IF b < a THEN a ELSE b

\* VersionRange(start, end): the value, and whether __post_init__ raises.
VersionRange(start, end) == [start |-> start, end |-> end]
VersionRangePostInitRaises(r) == r.end < r.start

\* VersionRange.__contains__
VersionRangeContains(r, item) == r.start <= item /\ item <= r.end

\* VersionRange.union: raises on two ranges that do not intersect.
VersionRangeUnionRaises(r, other) == r.end < other.start \/ other.end < r.start
\* A union that forgets the longer of the two ends.
VersionRangeUnionKeepsOtherEnd(r, other) ==
    VersionRange(Min(r.start, other.start), other.end)
VersionRangeUnion(r, other) ==
    VersionRange(Min(r.start, other.start), Max(r.end, other.end))

\* ------------------------------------------------------------ VersionSet

\* list.sort(key=lambda r: r.start): a stable sort by start (insertion of
\* each element behind the elements whose start is not greater).
RECURSIVE InsertByStart(_, _)
InsertByStart(sorted, r) ==
    IF sorted = <<>> \/ ~(r.start < sorted[Len(sorted)].start)
    THEN Append(sorted, r)
    ELSE Append(InsertByStart(SubSeq(sorted, 1, Len(sorted) - 1), r),
                sorted[Len(sorted)])

\* A constructor that forgets to sort its argument.
SortByStartSkipped(rs) == rs
RECURSIVE SortByStart(_)
SortByStart(rs) ==
    IF rs = <<>> THEN <<>>
    ELSE InsertByStart(SortByStart(SubSeq(rs, 1, Len(rs) - 1)), rs[Len(rs)])

\* The sweep of VersionSet.__init__ over the sorted list, from position i.
RECURSIVE Sweep(_, _, _, _)
Sweep(rs, i, current, acc) ==
    IF i > Len(rs) THEN [raised |-> FALSE, ranges |-> Append(acc, current)]
    ELSE IF current.end < rs[i].start
         THEN Sweep(rs, i + 1, rs[i], Append(acc, current))
         ELSE IF VersionRangeUnionRaises(current, rs[i])
              THEN [raised |-> TRUE, ranges |-> acc]
              ELSE Sweep(rs, i + 1, VersionRangeUnion(current, rs[i]), acc)

\* VersionSet.__init__(ranges)
VersionSetInit(rs) ==
    IF rs = <<>> THEN [raised |-> FALSE, ranges |-> <<>>]
    ELSE LET s == SortByStart(rs) IN Sweep(s, 1, s[1], <<>>)

\* VersionSet.union
VersionSetUnion(vs, other) == VersionSetInit(vs \o other)

\* The two-pointer loop of VersionSet.intersection.
RECURSIVE IntersectionLoop(_, _, _, _, _)
IntersectionLoop(vs, other, i, j, acc) ==
    IF ~(i <= Len(vs) /\ j <= Len(other))
    THEN [raised |-> FALSE, ranges |-> acc]
    ELSE LET left == vs[i]
             right == other[j]
         IN IF left.end < right.start
            THEN IntersectionLoop(vs, other, i + 1, j, acc)
            ELSE IF right.end < left.start
            THEN IntersectionLoop(vs, other, i, j + 1, acc)
            ELSE IF left.end < right.end
            THEN LET r == VersionRange(Max(left.start, right.start), left.end)
                 IN IF VersionRangePostInitRaises(r)
                    THEN [raised |-> TRUE, ranges |-> acc]
                    ELSE IntersectionLoop(vs, other, i + 1, j, Append(acc, r))
            ELSE LET r == VersionRange(Max(left.start, right.start), right.end)
                 IN IF VersionRangePostInitRaises(r)
                    THEN [raised |-> TRUE, ranges |-> acc]
                    ELSE IntersectionLoop(vs, other, i, j + 1, Append(acc, r))

\* VersionSet.intersection
VersionSetIntersection(vs, other) ==
    LET loop == IntersectionLoop(vs, other, 1, 1, <<>>)
    IN IF loop.raised THEN loop ELSE VersionSetInit(loop.ranges)

\* VersionSet.__contains__
VersionSetContains(vs, item) ==
    \E i \in 1..Len(vs) : VersionRangeContains(vs[i], item)

\* VersionSet.pick
VersionSetPick(vs, versions) == {v \in versions : VersionSetContains(vs, v)}

\* ------------------------------------------- inputs of the algebra runs

Versions == 1..MaxVersion
\* Every VersionRange that can be constructed (start <= end).
Ranges ==
    {VersionRange(s, e) : s \in Versions, e \in Versions} \
        {r \in {VersionRange(s, e) : s \in Versions, e \in Versions} :
            VersionRangePostInitRaises(r)}
RangeLists == UNION {[1..n -> Ranges] : n \in 0..MaxRanges}
\* The VersionSets the constructor returns for those lists: the second
\* operand of union and intersection.
BuiltVersionSets == {VersionSetInit(rs).ranges : rs \in RangeLists}

\* ------------------------------------------------------------ dicts

EmptyDict == [k \in {} |-> {}]
\* d[k] = v
Put(d, k, v) == [x \in DOMAIN d \cup {k} |-> IF x = k THEN v ELSE d[x]]

\* VersionedPackage(name, version)
VersionedPackage(name, version) == [name |-> name, version |-> version]

\* --------------------------------------------------- index file lines

\* A line of the index file: an entry "<name> <version>: <deps>" with its
\* dependency list [(name, range), ...] in the order written, or an empty
\* line.  NoLine stands for "no line read yet".
EntryLine(name, version, deps) ==
    [kind |-> "entry", name |-> name, version |-> version, deps |-> deps]
BlankLine == [kind |-> "blank", name |-> "", version |-> 0, deps |-> <<>>]
NoLine == [kind |-> "none", name |-> "", version |-> 0, deps |-> <<>>]

\* parse_entry: entry.strip().split(":") of an empty line has one field, so
\* unpacking it into (package, dependencies) raises ValueError.
ParseEntryRaises(l) == l.kind = "blank"
ParseEntry(l) ==
    [pv |-> VersionedPackage(l.name, l.version), raw_deps |-> l.deps]

\* ------------------------------------------------- load_package_index

\* A handler that widens whatever the mode.
MultipleRangesHandlerAlwaysUnion(m, vs, new_range) ==
    VersionSetUnion(vs, VersionSetInit(<<new_range>>).ranges)
\* multiple_ranges_handler[mode](vs, new_range)
MultipleRangesHandler(m, vs, new_range) ==
    LET single == VersionSetInit(<<new_range>>)
    IN IF single.raised THEN single
       ELSE IF m = "intersection"
            THEN VersionSetIntersection(vs, single.ranges)
            ELSE VersionSetUnion(vs, single.ranges)

\* The loop "for name, vr in raw_deps" from position i, deps built so far.
RECURSIVE AddDependencies(_, _, _, _)
AddDependencies(m, raw_deps, i, deps) ==
    IF i > Len(raw_deps) THEN [raised |-> FALSE, deps |-> deps]
    ELSE LET name == raw_deps[i].name
             vr == raw_deps[i].range
             vs == IF name \in DOMAIN deps
                   THEN MultipleRangesHandler(m, deps[name], vr)
                   ELSE VersionSetInit(<<vr>>)
         IN IF vs.raised THEN [raised |-> TRUE, deps |-> deps]
            ELSE AddDependencies(m, raw_deps, i + 1, Put(deps, name, vs.ranges))

\* A check that looks at the package name only.
DeclaredTwiceByName(idx, pv) == pv.name \in DOMAIN idx /\ idx[pv.name] # {}
\* "if pv.version in index[pv.name]": the pair was declared by an earlier line.
DeclaredTwice(idx, pv) == pv.name \in DOMAIN idx /\ pv.version \in idx[pv.name]

Count(d, k) == IF k \in DOMAIN d THEN d[k] ELSE 0

\* One turn of the loop "for line in file", for the line l.
LoadLine(l) ==
    /\ loadState = "reading"
    /\ line' = l
    /\ UNCHANGED mode
    /\ IF ParseEntryRaises(l)
       THEN /\ loadState' = "raised"
            /\ loadError' = "ValueError"
            /\ UNCHANGED <<index, dependencies, declared>>
       ELSE LET pv == ParseEntry(l).pv
                raw_deps == ParseEntry(l).raw_deps
                index1 == IF pv.name \notin DOMAIN index
                          THEN Put(index, pv.name, {})
                          ELSE index
                deps == AddDependencies(mode, raw_deps, 1, EmptyDict)
            IN /\ declared' = Put(declared, pv, Count(declared, pv) + 1)
               /\ IF DeclaredTwice(index1, pv)
                  THEN /\ loadState' = "raised"
                       /\ loadError' = "Exception"
                       /\ index' = index1
                       /\ UNCHANGED dependencies
                  ELSE /\ index' = Put(index1, pv.name,
                                       index1[pv.name] \cup {pv.version})
                       /\ IF deps.raised
                          THEN /\ loadState' = "raised"
                               /\ loadError' = "Exception"
                               /\ UNCHANGED dependencies
                          ELSE /\ loadState' = "reading"
                               /\ loadError' = "none"
                               /\ dependencies' = Put(dependencies, pv, deps.deps)

\* The file is exhausted: "return index, dependencies".
ReturnIndex ==
    /\ loadState = "reading"
    /\ loadState' = "returned"
    /\ line' = NoLine
    /\ UNCHANGED <<mode, index, dependencies, declared, loadError>>

\* ------------------------------------------------- iteration orders

\* The elements of a set (the keys of a dict) in the order a loop visits
\* them.  The file order the Python dicts remember is not kept by the model:
\* one fixed order stands for it.
RECURSIVE SetToSeq(_)
SetToSeq(S) ==
    IF S = {} THEN <<>>
    ELSE LET x == CHOOSE y \in S : TRUE IN <<x>> \o SetToSeq(S \ {x})

RECURSIVE ConcatAll(_)
ConcatAll(ss) == IF ss = <<>> THEN <<>> ELSE Head(ss) \o ConcatAll(Tail(ss))

\* itertools.combinations(xs, 2)
RECURSIVE Combinations2(_)
Combinations2(xs) ==
    IF Len(xs) < 2 THEN <<>>
    ELSE [i \in 1..(Len(xs) - 1) |-> <<xs[1], xs[i + 1]>>]
             \o Combinations2(Tail(xs))

\* ------------------------------------------- Formula.from_dependencies

\* bijection = dict(map(reversed, enumerate(dependencies.keys(), start=1)))
Bijection(deps) ==
    LET keys == SetToSeq(DOMAIN deps)
    IN [vp \in DOMAIN deps |-> CHOOSE i \in 1..Len(keys) : keys[i] = vp]

\* bijection[VersionedPackage(package, v)] raises KeyError for a version of
\* the index that is no key of the dependency map.
FromDependenciesRaises(idx, deps) ==
    \E package \in DOMAIN idx : \E v \in idx[package] :
        VersionedPackage(package, v) \notin DOMAIN deps

\* An encoder that forgets the clauses against two versions of a package.
AtMostOneClausesSkipped(idx, bijection) == <<>>
\* The clauses which prohibit several versions of the same package.
AtMostOneClauses(idx, bijection) ==
    LET packages == SetToSeq(DOMAIN idx)
        clausesOf(package) ==
            LET versions == SetToSeq(idx[package])
                vs == [i \in 1..Len(versions) |->
                          bijection[VersionedPackage(package, versions[i])]]
                pairs == Combinations2(vs)
            IN [i \in 1..Len(pairs) |-> <<-pairs[i][1], -pairs[i][2]>>]
    IN ConcatAll([i \in 1..Len(packages) |-> clausesOf(packages[i])])

\* An encoder that forgets vs.pick and offers every version of the index.
PossibleVersionsUnpicked(idx, requirement, vs) ==
    IF requirement \in DOMAIN idx THEN idx[requirement] ELSE {}
\* possible_versions = vs.pick(index.get(requirement, {}))
PossibleVersions(idx, requirement, vs) ==
    VersionSetPick(vs, IF requirement \in DOMAIN idx THEN idx[requirement] ELSE {})

\* An encoder that forgets the "or vp is absent" literal.
DependencyClauseUnconditional(idx, bijection, vp, requirement, vs) ==
    LET possible == SetToSeq(PossibleVersions(idx, requirement, vs))
    IN [i \in 1..Len(possible) |->
           bijection[VersionedPackage(requirement, possible[i])]]
\* The clause of one requirement of vp: one of possible_versions is present,
\* or vp is absent.
DependencyClause(idx, bijection, vp, requirement, vs) ==
    LET possible == SetToSeq(PossibleVersions(idx, requirement, vs))
    IN Append([i \in 1..Len(possible) |->
                  bijection[VersionedPackage(requirement, possible[i])]],
              -bijection[vp])

\* The clauses which check that dependencies are satisfied.
DependencyClauses(idx, deps, bijection) ==
    LET vps == SetToSeq(DOMAIN deps)
        clausesOf(vp) ==
            LET requirements == SetToSeq(DOMAIN deps[vp])
            IN [i \in 1..Len(requirements) |->
                   DependencyClause(idx, bijection, vp, requirements[i],
                                    deps[vp][requirements[i]])]
    IN ConcatAll([i \in 1..Len(vps) |-> clausesOf(vps[i])])

\* Formula.from_dependencies(index, dependencies): the CNF and the bijection.
FromDependencies(idx, deps) ==
    LET bijection == Bijection(deps)
    IN [built |-> TRUE,
        clauses |-> AtMostOneClauses(idx, bijection)
                        \o DependencyClauses(idx, deps, bijection),
        vp_to_var |-> bijection]

NoFormula == [built |-> FALSE, clauses |-> <<>>, vp_to_var |-> EmptyDict]

\* ---------------------------------------------------- the SAT solver

\* An assignment is the set of its true variables.
LiteralHolds(trueVars, lit) ==
    IF lit > 0 THEN lit \in trueVars ELSE (0 - lit) \notin trueVars
ClauseHolds(trueVars, clause) ==
    \E i \in 1..Len(clause) : LiteralHolds(trueVars, clause[i])

\* The models the solver may return: every assignment of the formula's
\* variables that satisfies each clause and makes each assumption true.
\* Which one it returns is the solver's choice.
SolverModels(f, assumptions_vars) ==
    {trueVars \in SUBSET (1..Cardinality(DOMAIN f.vp_to_var)) :
        /\ \A i \in 1..Len(f.clauses) : ClauseHolds(trueVars, f.clauses[i])
        /\ \A i \in 1..Len(assumptions_vars) : assumptions_vars[i] \in trueVars}

\* ------------------------------------------------------ Formula.solve

\* self.var_to_vp[v]
VarToVp(f, v) == CHOOSE vp \in DOMAIN f.vp_to_var : f.vp_to_var[vp] = v

\* list(map(self.vp_to_var.__getitem__, assumptions)) raises KeyError for a
\* versioned package that is no key of the dependency map.
SolveRaises(f, assumptions) ==
    \E i \in 1..Len(assumptions) : assumptions[i] \notin DOMAIN f.vp_to_var
AssumptionsVars(f, assumptions) ==
    [i \in 1..Len(assumptions) |-> f.vp_to_var[assumptions[i]]]

\* setup = {vp.name: vp.version for vp in vps}: vps in ascending variable
\* order, a later entry replacing an earlier one of the same name.
SetupOfModel(f, trueVars) ==
    LET names == {VarToVp(f, v).name : v \in trueVars}
        last(n) == CHOOSE v \in trueVars :
                      /\ VarToVp(f, v).name = n
                      /\ \A w \in trueVars : VarToVp(f, w).name = n => w <= v
    IN [n \in names |-> VarToVp(f, last(n)).version]

\* ------------------------------------------------ Formula.any_satisfiable

\* new_formula = self.formula.clauses + [self.vp_to_var[vp] for vp in packages]:
\* a new list, the clauses of the formula followed by one bare variable (an
\* integer, not a clause) per candidate.
AnySatisfiableRaises(f, packages) ==
    \E i \in 1..Len(packages) : packages[i] \notin DOMAIN f.vp_to_var
NewFormula(f, packages) ==
    [clauses |-> f.clauses,
     bare |-> [i \in 1..Len(packages) |-> f.vp_to_var[packages[i]]]]

\* What "with Solver(bootstrap_with=new_formula) as solver: return
\* solver.solve()" can come to.  With no candidate the list holds the clauses
\* alone and the answer is whether they have a model.  With candidates the
\* solver library is handed integers where it expects clauses; the library is
\* no part of the repository, so both things it can do with such an item are
\* outcomes: reject it (the call raises), or take each integer as a clause of
\* its own, which every model must then satisfy.
BootstrapOutcomes(f, new_formula) ==
    LET solved(assumed) ==
            [error |-> "none",
             answer |-> IF SolverModels(f, assumed) # {} THEN "True" ELSE "False"]
    IN IF new_formula.bare = <<>>
       THEN {solved(<<>>)}
       ELSE {[error |-> "TypeError", answer |-> "none"], solved(new_formula.bare)}

\* -------------------------------------------------------- reduce_setup

\* A loop with the membership test inverted: no new requirement is added.
AddRequirementsInverted(requirements, i, new_setup_packages, queue) ==
    [packages |-> new_setup_packages, queue |-> queue]
\* The loop "for requirement in dependencies[vp]" of reduce_setup.
RECURSIVE AddRequirements(_, _, _, _)
AddRequirements(requirements, i, new_setup_packages, queue) ==
    IF i > Len(requirements)
    THEN [packages |-> new_setup_packages, queue |-> queue]
    ELSE IF requirements[i] \notin new_setup_packages
         THEN AddRequirements(requirements, i + 1,
                              new_setup_packages \cup {requirements[i]},
                              Append(queue, requirements[i]))
         ELSE AddRequirements(requirements, i + 1, new_setup_packages, queue)

\* A reducer that follows the dependencies but returns the whole setup.
ReduceLoopKeepsAll(deps, stp, queue, new_setup_packages) ==
    [error |-> "none", setup |-> stp]
\* The loop "while queue" of reduce_setup and its return.
RECURSIVE ReduceLoop(_, _, _, _)
ReduceLoop(deps, stp, queue, new_setup_packages) ==
    IF queue = <<>>
    THEN IF new_setup_packages \subseteq DOMAIN stp
         THEN [error |-> "none", setup |-> [p \in new_setup_packages |-> stp[p]]]
         ELSE [error |-> "KeyError", setup |-> EmptyDict]
    ELSE LET package == Head(queue)
         IN IF package \notin DOMAIN stp
            THEN [error |-> "KeyError", setup |-> EmptyDict]
            ELSE LET vp == VersionedPackage(package, stp[package])
                 IN IF vp \notin DOMAIN deps
                    THEN [error |-> "KeyError", setup |-> EmptyDict]
                    ELSE LET r == AddRequirements(SetToSeq(DOMAIN deps[vp]), 1,
                                                  new_setup_packages, Tail(queue))
                         IN ReduceLoop(deps, stp, r.queue, r.packages)

\* reduce_setup(dependencies, setup, keep)
SeqToSet(xs) == {xs[i] : i \in 1..Len(xs)}
ReduceSetup(deps, stp, keep) ==
    IF ~(SeqToSet(keep) \subseteq DOMAIN stp)
    THEN [error |-> "Exception", setup |-> EmptyDict]
    ELSE ReduceLoop(deps, stp, keep, SeqToSet(keep))

\* ------------------------------------------ print_transitive_dependencies

\* A printed line: the indentation level, the package and version, and the
\* text that follows them; or a whole message; or the one-line list.
TreeLine(level, package, version, text) ==
    [level |-> level, name |-> package, version |-> version, text |-> text,
     items |-> EmptyDict]
Message(text) ==
    [level |-> 0, name |-> "", version |-> 0, text |-> text, items |-> EmptyDict]
\* ", ".join(f"{name} {v}" for name, v in setup.items())
OneLine(stp) ==
    [level |-> 0, name |-> "", version |-> 0, text |-> "oneline", items |-> stp]

\* The line of a package that was printed before.
SeeAboveLineUnmarked(level, package, version) ==
    TreeLine(level, package, version, "")
SeeAboveLine(level, package, version) ==
    TreeLine(level, package, version, " (see above)")

\* pp(package, level): st carries the printed set, the lines and the error;
\* keys[vp] is list(dependencies[vp]), the requirements of vp in the order
\* the dict yields them.
RECURSIVE PP(_, _, _, _, _, _)
RECURSIVE PPDependencies(_, _, _, _, _, _, _)
PP(deps, keys, stp, package, level, st) ==
    IF package \notin DOMAIN stp THEN [st EXCEPT !.error = "KeyError"]
    ELSE LET vp == VersionedPackage(package, stp[package])
         IN IF package \in st.printed
            THEN [st EXCEPT !.lines =
                     Append(@, SeeAboveLine(level, package, vp.version))]
            ELSE IF vp \notin DOMAIN deps
            THEN [st EXCEPT !.printed = @ \cup {package}, !.error = "KeyError"]
            ELSE LET has_subdependencies ==
                         IF DOMAIN deps[vp] # {}
                         THEN " with following dependencies:" ELSE ""
                     st1 == [st EXCEPT
                               !.printed = @ \cup {package},
                               !.lines = Append(@, TreeLine(level, package,
                                             vp.version, has_subdependencies))]
                 IN PPDependencies(deps, keys, stp, keys[vp], 1, level + 1, st1)
PPDependencies(deps, keys, stp, ds, i, level, st) ==
    IF i > Len(ds) \/ st.error # "none" THEN st
    ELSE PPDependencies(deps, keys, stp, ds, i + 1, level,
                        PP(deps, keys, stp, ds[i], level, st))

\* print_transitive_dependencies(index, dependencies, setup, root_package)
PrintTransitiveDependencies(deps, keys, stp, root_package) ==
    PP(deps, keys, stp, root_package, 0,
       [printed |-> {}, lines |-> <<>>, error |-> "none"])

\* The order of the requirements of every entry of a dependency map that the
\* loader filled from entries with at most one dependency.
KeysOf(deps) == [vp \in DOMAIN deps |-> SetToSeq(DOMAIN deps[vp])]

\* ------------------------------------------------- parts not in use

\* No VersionSet is built outside the loader.
AlgebraIdle ==
    /\ given = <<>> /\ ranges = <<>> /\ self = <<>> /\ out = <<>>
    /\ op = "none" /\ raised = FALSE

\* The loader has not started.
LoaderIdle ==
    /\ mode = "intersection"
    /\ line = NoLine
    /\ index = EmptyDict
    /\ dependencies = EmptyDict
    /\ declared = EmptyDict
    /\ loadState = "reading"
    /\ loadError = "none"

\* Nothing of utils.py has been called.
NoArgs ==
    [package |-> "", version |-> 0, oneline |-> FALSE,
     assumptions |-> <<>>, keep |-> <<>>, vs |-> <<>>, packages |-> <<>>,
     keys |-> EmptyDict]
SolverIdle ==
    /\ call = "none"
    /\ args = NoArgs
    /\ formula = NoFormula
    /\ model = {}
    /\ solveResult = "none"
    /\ setup = EmptyDict
    /\ new_setup = EmptyDict
    /\ error = "none"
    /\ printed = <<>>
    /\ solverCalls = 0
    /\ answer = "none"

\* --------------------------------------------- one-entry index files

\* The requirement names and the entries of the one-entry files.
RequirementNames == {"b", "c"}
RawDependencies ==
    {[name |-> n, range |-> r] : n \in RequirementNames, r \in Ranges}
EntryDependencyLists ==
    UNION {[1..n -> RawDependencies] : n \in 0..MaxEntryRanges}
Entries == {EntryLine("a", 1, ds) : ds \in EntryDependencyLists}

InitEntry ==
    /\ AlgebraIdle
    /\ SolverIdle
    /\ mode \in {"intersection", "union"}
    /\ line = NoLine
    /\ index = EmptyDict
    /\ dependencies = EmptyDict
    /\ declared = EmptyDict
    /\ loadState = "reading"
    /\ loadError = "none"

\* The only line of a one-entry file is read.
LoadEntry ==
    /\ line = NoLine
    /\ \E l \in Entries : LoadLine(l)
    /\ UNCHANGED <<vsVars, solveVars>>

ReturnEntry == line # NoLine /\ ReturnIndex /\ UNCHANGED <<vsVars, solveVars>>

NextEntry == LoadEntry \/ ReturnEntry

SpecEntry == InitEntry /\ [][NextEntry]_vars

\* ------------------------------------------------------ resolver runs

\* The packages, versions and lines of the index files of the resolver
\* runs: every entry has at most one dependency.
PackageNames == {"a", "b"}
IndexVersions == {1, 2}
IndexRanges == {r \in Ranges : r.start \in IndexVersions /\ r.end \in IndexVersions}
IndexDependencyLists ==
    {<<>>} \cup {<<[name |-> n, range |-> r]>> : n \in PackageNames, r \in IndexRanges}
IndexLines ==
    {EntryLine(n, v, ds) :
        n \in PackageNames, v \in IndexVersions, ds \in IndexDependencyLists}
        \cup {BlankLine}
VersionedPackages ==
    {VersionedPackage(n, v) : n \in PackageNames, v \in IndexVersions}

\* The arguments of the calls: package names and versions (one of each
\* unknown to every index), assumption lists as the callers pass them
\* (none, or one versioned package), and names to keep.
QueryNames == PackageNames \cup {"zzz"}
QueryVersions == IndexVersions \cup {Cardinality(IndexVersions) + 1}
AssumptionLists == {<<>>} \cup {<<vp>> : vp \in VersionedPackages}
KeepLists == {SetToSeq(S) : S \in SUBSET PackageNames}

RECURSIVE SumCounts(_, _)
SumCounts(d, keys) ==
    IF keys = {} THEN 0
    ELSE LET k == CHOOSE x \in keys : TRUE IN d[k] + SumCounts(d, keys \ {k})
\* The lines read so far (an empty line ends the load at once).
LinesRead == SumCounts(declared, DOMAIN declared)

Init ==
    /\ AlgebraIdle
    /\ LoaderIdle
    /\ SolverIdle

\* load_package_index reads the next line of the file.
ReadLine ==
    /\ LinesRead < MaxLines
    /\ \E l \in IndexLines : LoadLine(l)
    /\ UNCHANGED <<vsVars, solveVars>>

\* load_package_index reaches the end of the file.
ReturnLoaded == ReturnIndex /\ UNCHANGED <<vsVars, solveVars>>

\* f = Formula.from_dependencies(index, dependencies)
BuildFormula ==
    /\ loadState = "returned" /\ call = "none"
    /\ call' = "from_dependencies"
    /\ IF FromDependenciesRaises(index, dependencies)
       THEN formula' = NoFormula /\ error' = "KeyError"
       ELSE formula' = FromDependencies(index, dependencies) /\ error' = "none"
    /\ UNCHANGED <<args, model, solveResult, setup, new_setup, printed, solverCalls>>
    /\ UNCHANGED answer
    /\ UNCHANGED <<vsVars, loadVars>>

\* f.solve(assumptions)
Solve(assumptions) ==
    /\ call = "from_dependencies" /\ formula.built
    /\ call' = "solve"
    /\ args' = [NoArgs EXCEPT !.assumptions = assumptions]
    /\ IF SolveRaises(formula, assumptions)
       THEN /\ error' = "KeyError"
            /\ UNCHANGED <<model, solveResult, setup, solverCalls>>
       ELSE /\ error' = "none"
            /\ solverCalls' = solverCalls + 1
            /\ LET models == SolverModels(formula,
                                          AssumptionsVars(formula, assumptions))
               IN IF models = {}
                  THEN /\ solveResult' = "unsat"
                       /\ UNCHANGED <<model, setup>>
                  ELSE \E m \in models :
                         /\ solveResult' = "sat"
                         /\ model' = m
                         /\ setup' = SetupOfModel(formula, m)
    /\ UNCHANGED <<formula, new_setup, printed, answer>>
    /\ UNCHANGED <<vsVars, loadVars>>

SolveAny == \E assumptions \in AssumptionLists : Solve(assumptions)

\* reduce_setup(dependencies, setup, keep), setup as solve returned it
Reduce(keep) ==
    /\ call = "solve" /\ solveResult = "sat"
    /\ call' = "reduce_setup"
    /\ args' = [args EXCEPT !.keep = keep]
    /\ LET r == ReduceSetup(dependencies, setup, keep)
       IN new_setup' = r.setup /\ error' = r.error
    /\ UNCHANGED <<formula, model, solveResult, setup, printed, solverCalls,
                   answer>>
    /\ UNCHANGED <<vsVars, loadVars>>

ReduceAny == \E keep \in KeepLists : Reduce(keep)

\* satisfy raises before the formula is built.
SatisfyRaises(e) ==
    /\ error' = e
    /\ UNCHANGED <<formula, model, solveResult, setup, new_setup, printed,
                   solverCalls>>

\* "raise UnknownVersionError(...)": utils.py neither defines nor imports
\* that name, so evaluating it raises NameError.
UnknownVersionRaise == "NameError"

\* What satisfy does once solve has returned (True, stp).
SatisfyPrints(package, oneline, stp) ==
    IF oneline
    THEN LET r == ReduceSetup(dependencies, stp, <<package>>)
         IN /\ error' = r.error
            /\ new_setup' = r.setup
            /\ printed' = IF r.error = "none"
                          THEN Append(printed, OneLine(r.setup)) ELSE printed
    ELSE LET t == PrintTransitiveDependencies(dependencies, KeysOf(dependencies),
                                              stp, package)
         IN /\ error' = t.error
            /\ UNCHANGED new_setup
            /\ printed' = printed
                 \o <<Message("This package can be satisfied with following packages:")>>
                 \o t.lines

\* satisfy(index, dependencies, package, version, oneline)
Satisfy(package, version, oneline) ==
    /\ loadState = "returned" /\ call = "none"
    /\ call' = "satisfy"
    /\ args' = [NoArgs EXCEPT !.package = package, !.version = version,
                              !.oneline = oneline]
    /\ IF package \notin DOMAIN index
       THEN SatisfyRaises("UnknownPackageError")
       ELSE IF version \notin index[package]
       THEN SatisfyRaises(UnknownVersionRaise)
       ELSE IF FromDependenciesRaises(index, dependencies)
       THEN SatisfyRaises("KeyError")
       ELSE LET vp == VersionedPackage(package, version)
                f == FromDependencies(index, dependencies)
            IN /\ formula' = f
               /\ IF SolveRaises(f, <<vp>>)
                  THEN /\ error' = "KeyError"
                       /\ UNCHANGED <<model, solveResult, setup, new_setup,
                                      printed, solverCalls>>
                  ELSE /\ solverCalls' = solverCalls + 1
                       /\ LET models == SolverModels(f, AssumptionsVars(f, <<vp>>))
                          IN IF models = {}
                             THEN /\ solveResult' = "unsat"
                                  /\ error' = "none"
                                  /\ printed' = Append(printed,
                                       Message("This package version can't be satisfied"))
                                  /\ UNCHANGED <<model, setup, new_setup>>
                             ELSE \E m \in models :
                                    /\ solveResult' = "sat"
                                    /\ model' = m
                                    /\ setup' = SetupOfModel(f, m)
                                    /\ SatisfyPrints(package, oneline,
                                                     SetupOfModel(f, m))
    /\ UNCHANGED answer
    /\ UNCHANGED <<vsVars, loadVars>>

SatisfyAny ==
    \E package \in QueryNames, version \in QueryVersions, oneline \in BOOLEAN :
        Satisfy(package, version, oneline)

\* The version sets handed to is_versionset_satisfiable: empty or one range.
QueryVersionSets == {<<>>} \cup {<<r>> : r \in IndexRanges}

\* is_versionset_satisfiable(formula, index, package, vs), which hands the
\* picked versions of the package to formula.any_satisfiable
IsVersionsetSatisfiable(package, vs) ==
    /\ call = "from_dependencies" /\ formula.built
    /\ call' = "is_versionset_satisfiable"
    /\ IF package \notin DOMAIN index
       THEN /\ args' = [NoArgs EXCEPT !.package = package, !.vs = vs]
            /\ error' = "KeyError"
            /\ UNCHANGED <<answer, solverCalls>>
       ELSE LET versions == VersionSetPick(vs, index[package])
                vps == [i \in 1..Len(SetToSeq(versions)) |->
                           VersionedPackage(package, SetToSeq(versions)[i])]
            IN /\ args' = [NoArgs EXCEPT !.package = package, !.vs = vs,
                                         !.packages = vps]
               /\ IF AnySatisfiableRaises(formula, vps)
                  THEN /\ error' = "KeyError"
                       /\ UNCHANGED <<answer, solverCalls>>
                  ELSE \E o \in BootstrapOutcomes(formula, NewFormula(formula, vps)) :
                         /\ error' = o.error
                         /\ answer' = o.answer
                         /\ solverCalls' = solverCalls + 1
    /\ UNCHANGED <<formula, model, solveResult, setup, new_setup, printed>>
    /\ UNCHANGED <<vsVars, loadVars>>

IsVersionsetSatisfiableAny ==
    \E package \in PackageNames, vs \in QueryVersionSets :
        IsVersionsetSatisfiable(package, vs)

Next == ReadLine \/ ReturnLoaded \/ BuildFormula \/ SolveAny \/ ReduceAny
            \/ SatisfyAny \/ IsVersionsetSatisfiableAny

Spec == Init /\ [][Next]_vars

\* ------------------------------------------------ VersionSet algebra runs

InitVS ==
    /\ LoaderIdle
    /\ SolverIdle
    /\ given \in RangeLists
    /\ ranges = given
    /\ self = <<>>
    /\ out = <<>>
    /\ op = "none"
    /\ raised = FALSE

\* self = VersionSet(ranges); the argument list is sorted in place.
Construct ==
    /\ op = "none"
    /\ LET r == VersionSetInit(ranges)
       IN /\ self' = r.ranges
          /\ raised' = r.raised
    /\ ranges' = SortByStart(ranges)
    /\ op' = "init"
    /\ UNCHANGED <<given, out, loadVars, solveVars>>

\* out = self.union(other)
Union ==
    /\ op = "init" /\ ~raised
    /\ \E other \in BuiltVersionSets :
         LET r == VersionSetUnion(self, other)
         IN /\ out' = r.ranges
            /\ raised' = r.raised
    /\ op' = "union"
    /\ UNCHANGED <<given, ranges, self, loadVars, solveVars>>

\* out = self.intersection(other)
Intersection ==
    /\ op = "init" /\ ~raised
    /\ \E other \in BuiltVersionSets :
         LET r == VersionSetIntersection(self, other)
         IN /\ out' = r.ranges
            /\ raised' = r.raised
    /\ op' = "intersection"
    /\ UNCHANGED <<given, ranges, self, loadVars, solveVars>>

NextVS == Construct \/ Union \/ Intersection

SpecVS == InitVS /\ [][NextVS]_vars

\* ------------------------------------------------------- printing runs

\* The packages of the printing runs, one version each, and the lists a
\* dict of requirements can yield: distinct names in any order.
PrintNames == {"a", "b", "c"}
PrintVersion == 1
PrintKeyLists ==
    {ks \in UNION {[1..n -> PrintNames] : n \in 0..Cardinality(PrintNames)} :
        \A i, j \in 1..Len(ks) : i # j => ks[i] # ks[j]}
PrintVersionedPackages == {VersionedPackage(n, PrintVersion) : n \in PrintNames}
AnyVersion == <<VersionRange(PrintVersion, PrintVersion)>>

\* The dependency map whose dicts yield their keys in the given orders.
DependenciesOf(keys) ==
    [vp \in DOMAIN keys |-> [n \in SeqToSet(keys[vp]) |-> AnyVersion]]

\* Every dependency map over the packages, every setup made of some of
\* them, and a root package of the setup.
InitPP ==
    /\ AlgebraIdle
    /\ mode = "intersection" /\ line = NoLine /\ loadError = "none"
    /\ loadState = "returned"
    /\ index = [n \in PrintNames |-> {PrintVersion}]
    /\ declared = [vp \in PrintVersionedPackages |-> 1]
    /\ \E keys \in [PrintVersionedPackages -> PrintKeyLists] :
         \E S \in SUBSET PrintNames : \E root \in S :
            /\ dependencies = DependenciesOf(keys)
            /\ setup = [n \in S |-> PrintVersion]
            /\ args = [NoArgs EXCEPT !.package = root, !.keys = keys]
    /\ call = "none" /\ formula = NoFormula /\ model = {}
    /\ solveResult = "none" /\ new_setup = EmptyDict /\ error = "none"
    /\ printed = <<>> /\ solverCalls = 0 /\ answer = "none"

\* print_transitive_dependencies(index, dependencies, setup, root_package)
PrintTree ==
    /\ call = "none"
    /\ call' = "print_transitive_dependencies"
    /\ LET t == PrintTransitiveDependencies(dependencies, args.keys, setup,
                                            args.package)
       IN printed' = t.lines /\ error' = t.error
    /\ UNCHANGED <<args, formula, model, solveResult, setup, new_setup,
                   solverCalls, answer>>
    /\ UNCHANGED <<vsVars, loadVars>>

NextPP == PrintTree

SpecPP == InitPP /\ [][NextPP]_vars

\* ----------------------------------------------------------- claims

\* Every requirement of the versioned package (P, stp[P]) is met in stp.
RequirementsMet(stp, P) ==
    LET vp == VersionedPackage(P, stp[P])
    IN /\ vp \in DOMAIN dependencies
       /\ \A req \in DOMAIN dependencies[vp] :
            /\ req \in DOMAIN stp
            /\ VersionSetContains(dependencies[vp][req], stp[req])

\* C1: whenever solve returns (True, setup), every package P of the setup
\* has all requirements of (P, setup[P]) met: each required name is a key
\* of the setup and its version there is a member of the allowed set.
C1_SetupSatisfiesDependencies ==
    solveResult = "sat" => \A P \in DOMAIN setup : RequirementsMet(setup, P)

\* C1 happens: solve([a 1]) returned a setup in which a 1 requires b = 2
\* although the index also holds b 1.
C1_Witness ==
    /\ call = "solve" /\ solveResult = "sat"
    /\ args.assumptions = <<VersionedPackage("a", 1)>>
    /\ dependencies[VersionedPackage("a", 1)] =
           Put(EmptyDict, "b", <<VersionRange(2, 2)>>)
    /\ index["b"] = {1, 2}
    /\ setup = Put(Put(EmptyDict, "a", 1), "b", 2)

\* A selection of versioned packages that contains vp, holds at most one
\* version per package name, and meets every requirement of every member by
\* a member whose version exists in the index and lies in the allowed set.
ValidSelection(S, vp) ==
    /\ vp \in S
    /\ \A x \in S : \A y \in S : x.name = y.name => x = y
    /\ \A x \in S : \A req \in DOMAIN dependencies[x] :
         \E y \in S :
            /\ y.name = req
            /\ req \in DOMAIN index /\ y.version \in index[req]
            /\ VersionSetContains(dependencies[x][req], y.version)

\* C2: for a versioned package vp that is a key of the dependency map,
\* solve([vp]) reports satisfiable exactly when a valid selection containing
\* vp exists, and returns (False, None) when none exists.
C2_SatisfiableIffSelectionExists ==
    (/\ call = "solve"
     /\ Len(args.assumptions) = 1
     /\ args.assumptions[1] \in DOMAIN dependencies) =>
        /\ error = "none"
        /\ solveResult \in {"sat", "unsat"}
        /\ solveResult = "sat" <=>
              \E S \in SUBSET DOMAIN dependencies :
                  ValidSelection(S, args.assumptions[1])
        /\ solveResult = "unsat" => setup = EmptyDict /\ model = {}

\* C2 happens: a 1 requires a package that no line of the index declares,
\* and solve([a 1]) returned (False, None).
C2_Witness ==
    /\ call = "solve" /\ solveResult = "unsat"
    /\ args.assumptions = <<VersionedPackage("a", 1)>>
    /\ "b" \in DOMAIN dependencies[VersionedPackage("a", 1)]
    /\ "b" \notin DOMAIN index

\* C3: in every model solve builds a setup from, no two true variables
\* belong to the same package name, so the setup has one entry per selected
\* versioned package, each mapping the package's name to its version.
C3_AtMostOneVersion ==
    solveResult = "sat" =>
        /\ \A v \in model : \A w \in model :
              VarToVp(formula, v).name = VarToVp(formula, w).name => v = w
        /\ Cardinality(DOMAIN setup) = Cardinality(model)
        /\ \A v \in model :
              /\ VarToVp(formula, v).name \in DOMAIN setup
              /\ setup[VarToVp(formula, v).name] = VarToVp(formula, v).version

\* C3 happens: package "a" has two versions in the index, and the model
\* selects one version of "a" and one of "b".
C3_Witness ==
    /\ solveResult = "sat"
    /\ DOMAIN index = {"a", "b"}
    /\ index["a"] = {1, 2}
    /\ Cardinality(model) = 2
    /\ DOMAIN setup = {"a", "b"}

\* The names the last reduce_setup call was asked to keep.
KeptNames == SeqToSet(args.keep)

\* C4: when every name of keep appears in setup, reduce_setup returns a
\* map that contains every name of keep and is closed under the
\* dependency relation at the versions of setup; when some name of keep is
\* not in setup it raises instead of returning.
C4_ReducerClosure ==
    call = "reduce_setup" =>
        IF KeptNames \subseteq DOMAIN setup
        THEN /\ error = "none"
             /\ KeptNames \subseteq DOMAIN new_setup
             /\ \A P \in DOMAIN new_setup :
                  /\ P \in DOMAIN setup
                  /\ \A req \in DOMAIN dependencies[VersionedPackage(P, setup[P])] :
                        req \in DOMAIN new_setup
        ELSE error = "Exception"

\* C4 happens: asked to keep "a" alone, reduce_setup returned "a" and the
\* package "b" that a requires.
C4_Witness ==
    /\ call = "reduce_setup" /\ error = "none"
    /\ args.keep = <<"a">>
    /\ DOMAIN new_setup = {"a", "b"}

\* n is reachable from a name of keep along requirement names of the
\* dependency map at the versions recorded in setup.
NamePaths == UNION {[1..k -> PackageNames] : k \in 1..Cardinality(PackageNames)}
ReachableFromKeep(n) ==
    \E path \in NamePaths :
        /\ path[1] \in KeptNames
        /\ path[Len(path)] = n
        /\ \A i \in 1..(Len(path) - 1) :
             /\ path[i] \in DOMAIN setup
             /\ VersionedPackage(path[i], setup[path[i]]) \in DOMAIN dependencies
             /\ path[i + 1] \in
                   DOMAIN dependencies[VersionedPackage(path[i], setup[path[i]])]

\* C5: every package name in the map reduce_setup returns is reachable from
\* some name of keep by following requirement names at the versions of
\* setup, each returned name is mapped to setup[name], and the call leaves
\* the input setup unchanged.
C5_ReducerMinimality ==
    /\ [](call = "reduce_setup" /\ error = "none" =>
            \A n \in DOMAIN new_setup :
                /\ ReachableFromKeep(n)
                /\ n \in DOMAIN setup /\ new_setup[n] = setup[n])
    /\ [][call' = "reduce_setup" => setup' = setup]_vars

\* C5 happens: the setup of solve([a 1]) holds a and b, and asked to keep
\* "b" reduce_setup dropped "a".
C5_Witness ==
    /\ call = "reduce_setup" /\ error = "none"
    /\ args.keep = <<"b">>
    /\ DOMAIN setup = {"a", "b"}
    /\ DOMAIN new_setup = {"b"}

\* C9: a line that declares a (name, version) pair an earlier line declared
\* makes load_package_index raise, whatever was read in between and
\* whatever the dependency lists are; nothing else but an unparsable line
\* stops the load, and a file declaring every pair once loads with
\* index[name] holding exactly the declared versions.
C9_DuplicateRejection ==
    /\ (\E pv \in DOMAIN declared : declared[pv] > 1) =>
          loadState = "raised" /\ loadError = "Exception"
    /\ loadState = "raised" =>
          \/ ParseEntryRaises(line)
          \/ \E pv \in DOMAIN declared : declared[pv] > 1
    /\ loadState = "returned" =>
          /\ DOMAIN index = {pv.name : pv \in DOMAIN declared}
          /\ DOMAIN dependencies = DOMAIN declared
          /\ \A n \in DOMAIN index :
                index[n] = {pv.version : pv \in {q \in DOMAIN declared : q.name = n}}

\* C9 happens: the third line of a file declares again a pair that an
\* earlier line declared with another dependency list, and the load raised.
C9_Witness ==
    /\ loadState = "raised" /\ loadError = "Exception"
    /\ LinesRead = 3
    /\ Cardinality(DOMAIN declared) = 2
    /\ line.deps # <<>>
    /\ dependencies[VersionedPackage(line.name, line.version)] = EmptyDict

\* C10: satisfy raises UnknownPackageError for a package that is not in
\* the index and UnknownVersionError for a known package whose version is
\* not among its versions, in both cases before the formula is built and
\* the solver is invoked, and with nothing printed.
C10_SatisfyErrors ==
    call = "satisfy" =>
        /\ args.package \notin DOMAIN index =>
              /\ error = "UnknownPackageError"
              /\ ~formula.built /\ solverCalls = 0 /\ printed = <<>>
        /\ (args.package \in DOMAIN index
              /\ args.version \notin index[args.package]) =>
              /\ error = "UnknownVersionError"
              /\ ~formula.built /\ solverCalls = 0 /\ printed = <<>>

\* A VersionSet is normalized: each range non-empty, the ranges sorted by
\* start and strictly apart.
Normalized(vs) ==
    /\ \A i \in 1..Len(vs) : vs[i].start <= vs[i].end
    /\ \A i \in 1..(Len(vs) - 1) : vs[i].end < vs[i + 1].start

\* C6: every VersionSet the constructor, union or intersection produces is
\* produced without an error and holds its ranges sorted by start and
\* strictly disjoint: start <= end in each range, and r_i.end < r_{i+1}.start
\* for adjacent ranges.
C6_SetNormalization == ~raised /\ Normalized(self) /\ Normalized(out)

\* C6 happens: an unsorted list of three ranges was normalized to two, and
\* an intersection with it returned two ranges.
C6_Witness ==
    /\ op = "intersection"
    /\ Len(given) = 3 /\ given # ranges
    /\ Len(self) = 2 /\ Len(out) = 2

\* The ranges the entry l lists for the requirement name n.
ListedRanges(l, n) ==
    {l.deps[i].range : i \in {j \in 1..Len(l.deps) : l.deps[j].name = n}}

\* C8: when the entry just read lists ranges R_1..R_N (N >= 1) for a
\* requirement name, the loader stores for it a VersionSet whose members
\* are exactly the versions in all of R_1..R_N in mode "intersection", and
\* exactly the versions in at least one of them in mode "union".
C8_MultipleRanges ==
    (line.kind = "entry" /\ line.deps # <<>>) =>
        /\ loadState = "reading"
        /\ LET pv == VersionedPackage(line.name, line.version)
           IN /\ pv \in DOMAIN dependencies
              /\ DOMAIN dependencies[pv] =
                     {line.deps[i].name : i \in 1..Len(line.deps)}
              /\ \A n \in DOMAIN dependencies[pv] :
                   \A v \in 0..(MaxVersion + 1) :
                     VersionSetContains(dependencies[pv][n], v) <=>
                        IF mode = "intersection"
                        THEN \A r \in ListedRanges(line, n) :
                                VersionRangeContains(r, v)
                        ELSE \E r \in ListedRanges(line, n) :
                                VersionRangeContains(r, v)

\* C8 happens: three different ranges for "b", none of them the stored
\* set, were narrowed to the single version 2 in mode "intersection".
C8_Witness ==
    /\ mode = "intersection"
    /\ line.kind = "entry" /\ Len(line.deps) = 3
    /\ Cardinality(ListedRanges(line, "b")) = 3
    /\ VersionRange(2, 2) \notin ListedRanges(line, "b")
    /\ VersionedPackage("a", 1) \in DOMAIN dependencies
    /\ dependencies[VersionedPackage("a", 1)] =
           Put(EmptyDict, "b", <<VersionRange(2, 2)>>)

\* C7: after VersionSet(given), a version is a member of the set exactly
\* when it lies in at least one of the given ranges (so the set built from
\* the empty list has no members).
C7_MembershipEquivalence ==
    op = "init" =>
        /\ ~raised
        /\ \A v \in 0..(MaxVersion + 1) :
              VersionSetContains(self, v) <=>
                  \E i \in 1..Len(given) : VersionRangeContains(given[i], v)

\* C7 happens: an unsorted list with overlapping ranges was merged into
\* fewer ranges, and some version is left out of the set.
C7_Witness ==
    /\ op = "init"
    /\ given # ranges
    /\ Len(self) < Len(given)
    /\ \E v \in Versions : ~VersionSetContains(self, v)

\* ------------------------------------------------ C11: any_satisfiable

\* A candidate is compatible when solve([vp]) is satisfiable.
Compatible(f, vp) ==
    vp \in DOMAIN f.vp_to_var /\ SolverModels(f, <<f.vp_to_var[vp]>>) # {}

\* C11: any_satisfiable(candidates), called by is_versionset_satisfiable with
\* the picked versions of a package, returns (it does not raise) True if and
\* only if at least one candidate is compatible with the formula, so also for
\* several versions of one package of which one is compatible, and the
\* clauses of the formula are afterwards what from_dependencies built.
C11_AnySatisfiable ==
    (call = "is_versionset_satisfiable" /\ args.package \in DOMAIN index) =>
        /\ error = "none"
        /\ answer \in {"True", "False"}
        /\ answer = "True" <=>
               \E i \in 1..Len(args.packages) : Compatible(formula, args.packages[i])
        /\ formula = FromDependencies(index, dependencies)

\* ------------------------------------- C12: print_transitive_dependencies

\* The setup holds every requirement of each of its versioned packages.
ClosedSetup(deps, stp) ==
    \A p \in DOMAIN stp :
        /\ VersionedPackage(p, stp[p]) \in DOMAIN deps
        /\ DOMAIN deps[VersionedPackage(p, stp[p])] \subseteq DOMAIN stp

\* The lines that expand a package, and the requirements they announce.
ExpandingLines(lines) == {i \in 1..Len(lines) : lines[i].text # " (see above)"}
RECURSIVE SumRequirements(_, _, _)
SumRequirements(keys, lines, is) ==
    IF is = {} THEN 0
    ELSE LET i == CHOOSE x \in is : TRUE
         IN Len(keys[VersionedPackage(lines[i].name, lines[i].version)])
                + SumRequirements(keys, lines, is \ {i})

\* C12: on a setup closed under its dependencies (shared subtrees and cycles
\* included) print_transitive_dependencies returns: the root is printed at
\* level 0 and each line shows the version of the setup; the first line of
\* a package expands it and every later line of the same package reads
\* "(see above)"; nothing is printed below a "(see above)" line; and there
\* are as many lines as the root plus one per requirement of the expanded
\* packages, so no package is descended into twice.
C12_PrintTerminates ==
    (call = "print_transitive_dependencies" /\ ClosedSetup(dependencies, setup)) =>
        /\ error = "none"
        /\ Len(printed) >= 1
        /\ printed[1] = TreeLine(0, args.package, setup[args.package],
                IF args.keys[VersionedPackage(args.package, setup[args.package])] # <<>>
                THEN " with following dependencies:" ELSE "")
        /\ \A i \in 1..Len(printed) :
              /\ printed[i].name \in DOMAIN setup
              /\ printed[i].version = setup[printed[i].name]
              /\ printed[i].text = " (see above)" <=>
                    \E j \in 1..(i - 1) : printed[j].name = printed[i].name
              /\ (printed[i].text = " (see above)" /\ i < Len(printed)) =>
                    printed[i + 1].level <= printed[i].level
        /\ Len(printed) =
              1 + SumRequirements(args.keys, printed, ExpandingLines(printed))

\* A cycle through the root and a subtree shared by two packages, both
\* printed: c is required by a and by b, and c requires a.
C12_Witness ==
    /\ call = "print_transitive_dependencies"
    /\ error = "none"
    /\ args.package = "a"
    /\ DOMAIN setup = PrintNames
    /\ ClosedSetup(dependencies, setup)
    /\ args.keys[VersionedPackage("a", PrintVersion)] = <<"b", "c">>
    /\ args.keys[VersionedPackage("b", PrintVersion)] = <<"c">>
    /\ args.keys[VersionedPackage("c", PrintVersion)] = <<"a">>
    /\ printed = << TreeLine(0, "a", 1, " with following dependencies:"),
                    TreeLine(1, "b", 1, " with following dependencies:"),
                    TreeLine(2, "c", 1, " with following dependencies:"),
                    TreeLine(3, "a", 1, " (see above)"),
                    TreeLine(1, "c", 1, " (see above)") >>

\* ------------------------------------------------- C13: empty lines

\* C13: load_package_index tolerates an empty line wherever it stands in
\* the file: reading it raises nothing, the loop goes on to the next line,
\* and the index and the dependency map stay what the lines before it made
\* them, so the load returns what the file without its empty lines gives.
C13_EmptyLinesTolerated ==
    [][(loadState = "reading" /\ line' = BlankLine) =>
          /\ loadState' = "reading"
          /\ loadError' = "none"
          /\ index' = index
          /\ dependencies' = dependencies]_vars

====
